---- MODULE Spec2Model ----
(***************************************************************************)
(* edp-gmail-invoices (src/main.go): the OAuth2 loopback authorization     *)
(* flow of getClient / getTokenFromWeb and the paginated mailbox scan of   *)
(* main, as one state machine.  Strings the program inspects (subjects,    *)
(* attachment filenames, dates, message identifiers, file names) are       *)
(* sequences of one-character strings, so that the regular expressions and *)
(* the formatting are computed rather than assumed.                        *)
(***************************************************************************)
EXTENDS Integers, Sequences, FiniteSets, TLC

\* ------------------------------------------------------------------ bounds
\* pages of one search result chain
MaxPages == 2
\* message identifiers on one page
MaxPageSize == 2
\* top-level parts of one message
MaxParts == 2
\* callback requests that reach the loopback listener in one run
MaxCallbacks == 2

\* ----------------------------------------------------------------- strings
DigitChars == <<"0", "1", "2", "3", "4", "5", "6", "7", "8", "9">>

IsDigit(c) == \E k \in 1..10 : DigitChars[k] = c

\* the decimal digit d (0..9) as a character
DigitChar(d) == DigitChars[d + 1]

\* the number of decimal digits of n >= 0
NumDigits(n) == CHOOSE d \in 1..9 : (n \div (10 ^ (d - 1))) \in (IF d = 1 THEN 0..9 ELSE 1..9)

\* n >= 0 in decimal, zero-padded on the left to at least w characters
Pad(n, w) ==
    LET len == IF NumDigits(n) > w THEN NumDigits(n) ELSE w
    IN  [k \in 1..len |-> DigitChar((n \div (10 ^ (len - k))) % 10)]

\* s[from..] starts with lit
StartsAt(s, from, lit) ==
    /\ from + Len(lit) - 1 <= Len(s)
    /\ \A k \in 1..Len(lit) : s[from + k - 1] = lit[k]

\* the length of the longest run of digits of s that starts at from
DigitRun(s, from) ==
    LET runs == {n \in 0..(Len(s) - from + 1) : \A k \in 0..(n - 1) : IsDigit(s[from + k])}
    IN  CHOOSE n \in runs : \A m \in runs : m <= n

\* ------------------------------------------------- regular expressions
ContractLit == <<"(", "c", "o", "n", "t", "r", "a", "t", "o", " ">>

\* `\(contrato (\d+)\)` matches s at position at
ContractMatchAt(s, at) ==
    /\ StartsAt(s, at, ContractLit)
    /\ DigitRun(s, at + Len(ContractLit)) >= 1
    /\ at + Len(ContractLit) + DigitRun(s, at + Len(ContractLit)) <= Len(s)
    /\ s[at + Len(ContractLit) + DigitRun(s, at + Len(ContractLit))] = ")"

\* contractSubjectRegex.FindStringSubmatch(subject): <<>> when nothing matches,
\* else <<whole match, group 1>> of the leftmost match
FindStringSubmatch(subject) ==
    LET starts == {at \in 1..Len(subject) : ContractMatchAt(subject, at)}
    IN  IF starts = {} THEN <<>>
        ELSE LET first == CHOOSE a \in starts : \A b \in starts : a <= b
                 n == DigitRun(subject, first + Len(ContractLit))
             IN  << SubSeq(subject, first, first + Len(ContractLit) + n),
                    SubSeq(subject, first + Len(ContractLit),
                           first + Len(ContractLit) + n - 1) >>

PdfExt == <<".", "p", "d", "f">>

\* the pattern without its anchors: digits and .pdf anywhere in the name
InvoiceFilenameMatchAnywhere(filename) ==
    \E at \in 1..Len(filename) :
        /\ DigitRun(filename, at) >= 1
        /\ StartsAt(filename, at + DigitRun(filename, at), PdfExt)

\* invoiceFilenameRegex.MatchString(filename), the pattern being `^\d+\.pdf$`
InvoiceFilenameMatch(filename) ==
    /\ Len(filename) > Len(PdfExt)
    /\ DigitRun(filename, 1) = Len(filename) - Len(PdfExt)
    /\ StartsAt(filename, Len(filename) - Len(PdfExt) + 1, PdfExt)

\* ------------------------------------------------------------------ dates
\* floor of the days since 1970-01-01 to <<year, month, day>> (proleptic
\* Gregorian calendar), as time.Time computes a date
CivilFromDays(days) ==
    LET z   == days + 719468
        era == z \div 146097
        doe == z - era * 146097
        yoe == (doe - (doe \div 1460) + (doe \div 36524) - (doe \div 146096)) \div 365
        doy == doe - (365 * yoe + (yoe \div 4) - (yoe \div 100))
        mp  == (5 * doy + 2) \div 153
        d   == doy - ((153 * mp + 2) \div 5) + 1
        m   == IF mp < 10 THEN mp + 3 ELSE mp - 9
        y   == yoe + era * 400 + (IF m <= 2 THEN 1 ELSE 0)
    IN  <<y, m, d>>

\* An epoch-millisecond timestamp (int64 in the source) is the pair
\* <<q, r>> standing for q * 1000 + r with 0 <= r < 1000: the model checker's
\* integers are 32 bits wide and the source only uses the value through
\* internalDateMs/1000 and internalDateMs%1000.
MsQuot(internalDateMs) == internalDateMs[1]
MsRem(internalDateMs) == internalDateMs[2]

\* formatDate(internalDateMs) in a zone offsetSec seconds east of UTC:
\* time.Unix(ms/1000, (ms%1000)*1e6).Format("2006-01-02") of the local time
formatDate(internalDateMs, offsetSec) ==
    LET sec == MsQuot(internalDateMs) + (MsRem(internalDateMs) \div 1000)
        ymd == CivilFromDays((sec + offsetSec) \div 86400)
    IN  Pad(ymd[1], 4) \o <<"-">> \o Pad(ymd[2], 2) \o <<"-">> \o Pad(ymd[3], 2)

\* ----------------------------------------------------------- file names
EmlExt == <<".", "e", "m", "l">>
Dash == <<"-">>
EdpTag == <<"-", "e", "d", "p", "-">>

\* has the alias table (a set of <<contract, alias>> pairs with distinct
\* contracts) an entry for contract
HasAlias(contracts, contract) == \E e \in contracts : e[1] = contract

AliasOf(contracts, contract) == (CHOOSE e \in contracts : e[1] = contract)[2]

\* a prefix that leaves the alias out
prefixOfNoAlias(date, id, matches, contracts) ==
    IF Len(matches) > 1
    THEN date \o EdpTag \o matches[2]
    ELSE date \o Dash \o id

\* the filename prefix main computes from matches, the result of
\* contractSubjectRegex.FindStringSubmatch(subject)
prefixOf(date, id, matches, contracts) ==
    IF Len(matches) > 1
    THEN LET contract == matches[2]
             edp == date \o EdpTag \o contract
         IN  IF HasAlias(contracts, contract)
             THEN edp \o Dash \o AliasOf(contracts, contract)
             ELSE edp
    ELSE date \o Dash \o id

\* the filename prefix main computes for a message
filenamePrefix(date, id, subject, contracts) ==
    prefixOf(date, id, FindStringSubmatch(subject), contracts)

\* the file an attachment part is saved to, and the raw message's file
AttachmentName(prefix, filename) == prefix \o Dash \o filename

\* a raw message's file without the extension
RawNameBare(prefix) == prefix

RawName(prefix) == prefix \o EmlExt

\* ------------------------------------------------------------ query
\* encodeQuery over the map's entries in the order the iteration visits them
\* (a sequence of <<key, value>>); Go leaves that order unspecified
ContainsAny(value, chars) == \E k \in 1..Len(value) : value[k] \in chars

EncodeEntry(e) ==
    IF ContainsAny(e[2], {" ", ":"})
    THEN e[1] \o <<":", "\"">> \o e[2] \o <<"\"">>
    ELSE e[1] \o <<":">> \o e[2]

RECURSIVE encodeQuery(_)
encodeQuery(entries) ==
    IF entries = <<>> THEN <<>>
    ELSE IF Len(entries) = 1 THEN EncodeEntry(entries[1])
    ELSE EncodeEntry(entries[1]) \o <<" ">> \o encodeQuery(Tail(entries))

\* searchParams of main, in the two orders the iteration over a map of two
\* entries can take
SearchParamOrders ==
    << << <<<<"f", "r", "o", "m">>, <<"f", "a", "t", "u", "r", "a", "e", "d", "p", "@", "e", "d", "p", ".", "p", "t">>>>, <<<<"h", "a", "s">>, <<"a", "t", "t", "a", "c", "h", "m", "e", "n", "t">>>> >>,
       << <<<<"h", "a", "s">>, <<"a", "t", "t", "a", "c", "h", "m", "e", "n", "t">>>>, <<<<"f", "r", "o", "m">>, <<"f", "a", "t", "u", "r", "a", "e", "d", "p", "@", "e", "d", "p", ".", "p", "t">>>> >> >>

\* arguments of encodeQuery: every map from at most two of QueryKeys to
\* QueryValues, its entries in every order the iteration can visit them
QueryKeys == { <<"a">>, <<"b">> }

QueryValues ==
    { <<"x">>,
      <<"x", " ", "z">>,
      <<"y", " ", "z">>,
      <<"k", ":", "v">>,
      <<"x", " ", "z", "\"", " ", "b", ":", "\"", "y", " ", "z">> }

QueryOrders ==
    {<<>>}
    \cup { << <<k, v>> >> : k \in QueryKeys, v \in QueryValues }
    \cup { o \in { << <<k, v>>, <<l, w>> >> :
                       k \in QueryKeys, l \in QueryKeys, v \in QueryValues, w \in QueryValues } :
              o[1][1] # o[2][1] }

\* ------------------------------------------------------------ inputs
\* alias tables config.yaml can hold: none (file missing or empty) and the
\* README's example
AliasTables ==
    { {},
      { <<<<"1", "0", "0", "2", "0", "0", "3", "0", "0", "1", "0", "0">>, <<"a", "l", "g", "u", "e", "i", "r", "a", "o">>>>, <<<<"1", "0", "0", "2", "0", "0", "3", "0", "0", "2", "0", "0">>, <<"m", "a", "f", "r", "a">>>> } }

\* offsets of the host's local zone east of UTC, in seconds
ZoneOffsets == {0, 3600}

\* internalDate values of messages: 2024-07-08T00:53:20Z and 2024-07-07T23:46:40Z
InternalDates == { <<1720400000, 0>>, <<1720396000, 0>> }

\* Subject header values; <<>> is also what a message without Subject gives
Subjects ==
    { <<>>,
      <<"A", " ", "s", "u", "a", " ", "f", "a", "t", "u", "r", "a", " ", "E", "D", "P">>,
      <<"A", " ", "s", "u", "a", " ", "f", "a", "t", "u", "r", "a", " ", "E", "D", "P", " ", "(", "c", "o", "n", "t", "r", "a", "t", "o", " ", "1", "0", "0", "2", "0", "0", "3", "0", "0", "2", "0", "0", ")">>,
      <<"(", "c", "o", "n", "t", "r", "a", "t", "o", " ", "1", "0", "0", "2", "0", "0", "3", "0", "0", "9", "9", "9", ")", " ", "(", "c", "o", "n", "t", "r", "a", "t", "o", " ", "1", "0", "0", "2", "0", "0", "3", "0", "0", "1", "0", "0", ")">>,
      <<"f", "a", "t", "u", "r", "a", " ", "(", "c", "o", "n", "t", "r", "a", "t", "o", " ", ")", " ", "c", "o", "n", "t", "r", "a", "t", "o", " ", "1", "0", "0", "2", "0", "0", "3", "0", "0", "2", "0", "0">> }

\* MIME types of top-level parts; a "multipart/mixed" part is a container
\* whose own parts (PDFs among them) the loop over Payload.Parts never visits
MimeTypes == {"application/pdf", "text/plain", "multipart/mixed"}

Filenames ==
    { <<"1", "8", "7", "0", "0", "8", "5", "7", "1", "9", "2", "3", ".", "p", "d", "f">>,
      <<"4", "2", ".", "p", "d", "f">>,
      <<"i", "n", "v", "o", "i", "c", "e", "-", "1", "8", "7", "0", "0", "8", "5", "7", "1", "9", "2", "3", ".", "p", "d", "f">>,
      <<"1", "8", "7", "0", "0", "8", "5", "7", "1", "9", "2", "3", ".", "t", "x", "t">> }

\* values of the callback request's code query parameter ("" when absent)
Codes == {"", "code-a"}

\* values of the callback request's state query parameter: the one AuthCodeURL
\* was given, and anything else ("" when absent)
States == {"state-token", ""}

\* ------------------------------------------------------------ the mailbox
\* The provider's answer to the search: a chain of pages, given by the number
\* of message identifiers on each page.  Page p carries the continuation
\* token TokenOfPage(p) unless it is the last one, whose token is "".
PageChains ==
    UNION { [1..n -> 0..MaxPageSize] : n \in 1..MaxPages }

NoToken == <<>>
TokenOfPage(p) == <<"T", DigitChar(p)>>

NextPageToken(mb, p) == IF p < Len(mb) THEN TokenOfPage(p) ELSE NoToken

\* the page a list request with pageToken asks for
PageOfToken(mb, pageToken) ==
    IF pageToken = NoToken THEN 1
    ELSE 1 + CHOOSE p \in 1..Len(mb) : TokenOfPage(p) = pageToken

RECURSIVE SumUpTo(_, _)
SumUpTo(mb, p) == IF p = 0 THEN 0 ELSE mb[p] + SumUpTo(mb, p - 1)

\* message identifiers are numbered along the chain
MsgId(n) == <<"m">> \o Pad(n, 1)

PageIds(mb, p) == [k \in 1..mb[p] |-> MsgId(SumUpTo(mb, p - 1) + k)]

\* every message identifier a chain can hold
MsgIds == {MsgId(n) : n \in 1..(MaxPages * MaxPageSize)}

\* What the mailbox's messages look like: "sample" is a mailbox whose
\* messages all are the README's example (an invoice mail with one PDF),
\* "any" one whose messages are drawn from all the inputs above.
ContentKinds == {"sample", "any"}

SampleDate == <<1720400000, 0>>
SampleSubject == CHOOSE s \in Subjects : Len(s) = 40
SampleFilename == CHOOSE f \in Filenames : Len(f) = 16

DatesOf(kind) == IF kind = "sample" THEN {SampleDate} ELSE InternalDates
SubjectsOf(kind) == IF kind = "sample" THEN {SampleSubject} ELSE Subjects
PartCountsOf(kind) == IF kind = "sample" THEN {1} ELSE 0..MaxParts
MimeTypesOf(kind) == IF kind = "sample" THEN {"application/pdf"} ELSE MimeTypes
FilenamesOf(kind) == IF kind = "sample" THEN {SampleFilename} ELSE Filenames

\* ------------------------------------------------------------------ state
VARIABLES
    pc,            \* where the main goroutine is
    configFile,    \* config.yaml: missing, malformed, or holding an alias table
    tokStart,      \* token.json as the run found it
    zone,          \* the local zone's offset, seconds east of UTC
    order,         \* searchParams as this run's map iteration visits its entries
    mailbox,       \* the provider's page chain for the query
    contents,      \* what the mailbox's messages look like
    tokFile,       \* token.json now
    tok,           \* the token getClient holds: "none", "file" or "web"
    aliases,       \* configuration.Contracts
    srv,           \* the goroutine running server.ListenAndServe
    handlers,      \* the callback handler invocations, by arrival
    shut,          \* the goroutine running server.Shutdown
    browser,       \* the xdg-open process and the goroutine waiting on it
    authCode,      \* the value received from codeChan
    exchanges,     \* the codes config.Exchange was called with, in order
    q,             \* the encoded query
    pageToken,     \* main's pageToken
    requests,      \* the list requests issued, in order
    r,             \* the last list response
    i,             \* index of the current message in r.ids
    processed,     \* the identifiers a detail fetch was issued for, in order
    cur,           \* the current message and what was done for it
    messageIndex   \* main's messageIndex

envVars == <<configFile, tokStart, zone, order, mailbox, contents>>
authVars == <<tokFile, tok, srv, handlers, shut, browser, authCode, exchanges>>
scanVars == <<q, pageToken, requests, r, i, processed, cur, messageIndex>>
vars == <<pc, aliases, envVars, authVars, scanVars>>

\* what a token file can be when the run starts
TokenFileStates == {"absent", "unreadable", "malformed", "valid"}

\* what config.yaml can be
ConfigFiles ==
    { [st |-> "missing", table |-> {}], [st |-> "malformed", table |-> {}] }
    \cup { [st |-> "ok", table |-> t] : t \in AliasTables }

NoHandler == [st |-> "none", code |-> "", state |-> ""]
NoResponse == [ids |-> <<>>, next |-> NoToken, err |-> FALSE]
\* what req.Do() leaves when it returns an error
FailedResponse == [ids |-> <<>>, next |-> NoToken, err |-> TRUE]
\* the part the parts loop looked at last, and what it did for it (the loop
\* variable is gone once the loop is left)
NoPart == [mimeType |-> "", filename |-> <<>>, fetched |-> FALSE, written |-> <<>>]
NoMsg ==
    [id |-> <<>>, detail |-> "none", index |-> 0, date |-> <<>>, subject |-> <<>>,
     prefix |-> <<>>, nParts |-> 0, part |-> 1,
     examined |-> 0, matched |-> 0, attFetches |-> 0, attFailed |-> 0, failedAt |-> 0,
     rawFetches |-> 0, rawAt |-> 0, emlWrites |-> 0, files |-> {}, last |-> NoPart]

\* the process is alive: main has neither returned nor called log.Fatalf
Running == pc \notin {"done", "exited"}

InitWith(configs, tokens, zones, orders, chains, kinds) ==
    /\ pc = "start"
    /\ configFile \in configs
    /\ tokStart \in tokens
    /\ zone \in zones
    /\ order \in orders
    /\ mailbox \in chains
    /\ contents \in kinds
    /\ tokFile = tokStart
    /\ tok = "none"
    /\ aliases = {}
    /\ srv = "idle"
    /\ handlers = [h \in 1..MaxCallbacks |-> NoHandler]
    /\ shut = "none"
    /\ browser = "none"
    /\ authCode = ""
    /\ exchanges = <<>>
    /\ q = <<>>
    /\ pageToken = NoToken
    /\ requests = <<>>
    /\ r = NoResponse
    /\ i = 0
    /\ processed = <<>>
    /\ cur = NoMsg
    /\ messageIndex = 0

\* -------------------------------------------------- main: startup, getClient
\* getConfiguration: a missing file is an empty configuration
getConfiguration(file) == IF file.st = "missing" THEN {} ELSE file.table

\* main, up to the call of getClient: the configuration and the client
\* secret; credentials tells whether credentials.json is read and parsed
Startup ==
    /\ pc = "start"
    /\ \E credentials \in BOOLEAN :
          IF configFile.st = "malformed" \/ ~credentials
          THEN pc' = "exited" /\ aliases' = aliases
          ELSE pc' = "getClient" /\ aliases' = getConfiguration(configFile)
    /\ UNCHANGED <<envVars, authVars, scanVars>>

\* a tokenFromFile that only looks at whether the file exists
tokenFromFileIfPresent(file) == file # "absent"

\* does tokenFromFile return a nil error for this file
tokenFromFileOk(file) == file = "valid"

\* getClient: tokenFromFile, then either the client or the web flow
GetClient ==
    /\ pc = "getClient"
    /\ IF tokenFromFileOk(tokFile)
       THEN tok' = "file" /\ pc' = "service"
       ELSE tok' = tok /\ pc' = "web"
    /\ UNCHANGED <<aliases, envVars, tokFile, srv, handlers, shut, browser, authCode,
                   exchanges, scanVars>>

\* getTokenFromWeb up to the start of the listener goroutine
StartWebFlow ==
    /\ pc = "web"
    /\ srv' = "starting"
    /\ pc' = "browser"
    /\ UNCHANGED <<aliases, envVars, tokFile, tok, handlers, shut, browser, authCode,
                   exchanges, scanVars>>

\* a launch of the browser whose failure ends the run
OpenBrowserFatal ==
    /\ pc = "browser"
    /\ \/ browser' = "running" /\ pc' = "wait"
       \/ browser' = "failed" /\ pc' = "exited"
    /\ UNCHANGED <<aliases, envVars, tokFile, tok, srv, handlers, shut, authCode,
                   exchanges, scanVars>>

\* openBrowser and the fallback that prints the URL
OpenBrowser ==
    /\ pc = "browser"
    /\ browser' \in {"running", "failed"}
    /\ pc' = "wait"
    /\ UNCHANGED <<aliases, envVars, tokFile, tok, srv, handlers, shut, authCode,
                   exchanges, scanVars>>

\* the goroutine of openBrowser: cmd.Wait returns
BrowserExit ==
    /\ Running
    /\ browser = "running"
    /\ browser' = "exited"
    /\ UNCHANGED <<pc, aliases, envVars, tokFile, tok, srv, handlers, shut, authCode,
                   exchanges, scanVars>>

\* ------------------------------------------------ the loopback listener
\* server.ListenAndServe binds the address, or fails and is logged
Listen ==
    /\ Running
    /\ srv = "starting"
    /\ srv' \in {"serving", "failed"}
    /\ UNCHANGED <<pc, aliases, envVars, tokFile, tok, handlers, shut, browser,
                   authCode, exchanges, scanVars>>

\* ListenAndServe returns an error other than ErrServerClosed while serving
ServeError ==
    /\ Running
    /\ srv = "serving"
    /\ srv' = "failed"
    /\ UNCHANGED <<pc, aliases, envVars, tokFile, tok, handlers, shut, browser,
                   authCode, exchanges, scanVars>>

\* a handler that turns away a request without a code or with another state
CallbackRequestChecked(h) ==
    /\ Running
    /\ srv = "serving"
    /\ handlers[h].st = "none"
    /\ \A g \in 1..(h - 1) : handlers[g].st # "none"
    /\ \E code \in Codes, state \in States :
          handlers' = [handlers EXCEPT ![h] =
                          [st |-> IF code = "" \/ state # "state-token" THEN "done" ELSE "send",
                           code |-> code, state |-> state]]
    /\ UNCHANGED <<pc, aliases, envVars, tokFile, tok, srv, shut, browser, authCode,
                   exchanges, scanVars>>

\* a request for the callback path arrives: the handler reads the code
\* parameter and blocks in the send on codeChan
CallbackRequest(h) ==
    /\ Running
    /\ srv = "serving"
    /\ handlers[h].st = "none"
    /\ \A g \in 1..(h - 1) : handlers[g].st # "none"
    /\ \E code \in Codes, state \in States :
          handlers' = [handlers EXCEPT ![h] = [st |-> "send", code |-> code, state |-> state]]
    /\ UNCHANGED <<pc, aliases, envVars, tokFile, tok, srv, shut, browser, authCode,
                   exchanges, scanVars>>

\* a flow that receives from codeChan once more after the exchange
ReceiveCodeAgain(h) ==
    /\ pc \in {"wait", "save"}
    /\ handlers[h].st = "send"
    /\ authCode' = handlers[h].code
    /\ handlers' = [handlers EXCEPT ![h].st = "reply"]
    /\ pc' = "exchange"
    /\ UNCHANGED <<aliases, envVars, tokFile, tok, srv, shut, browser, exchanges,
                   scanVars>>

\* the rendezvous on the unbuffered codeChan: handler h's send meets main's
\* receive
ReceiveCode(h) ==
    /\ pc = "wait"
    /\ handlers[h].st = "send"
    /\ authCode' = handlers[h].code
    /\ handlers' = [handlers EXCEPT ![h].st = "reply"]
    /\ pc' = "exchange"
    /\ UNCHANGED <<aliases, envVars, tokFile, tok, srv, shut, browser, exchanges,
                   scanVars>>

\* the handler after its send: the success page, the shutdown goroutine
HandlerReply(h) ==
    /\ Running
    /\ handlers[h].st = "reply"
    /\ handlers' = [handlers EXCEPT ![h].st = "done"]
    /\ shut' = "spawned"
    /\ UNCHANGED <<pc, aliases, envVars, tokFile, tok, srv, browser, authCode,
                   exchanges, scanVars>>

\* server.Shutdown closes the listener: ListenAndServe returns ErrServerClosed
ShutdownStart ==
    /\ Running
    /\ shut = "spawned"
    /\ shut' = "closing"
    /\ srv' = IF srv = "serving" THEN "closed" ELSE srv
    /\ UNCHANGED <<pc, aliases, envVars, tokFile, tok, handlers, browser, authCode,
                   exchanges, scanVars>>

\* server.Shutdown returns once no connection is active, that is once no
\* handler is running
ShutdownDone ==
    /\ Running
    /\ shut = "closing"
    /\ \A h \in 1..MaxCallbacks : handlers[h].st \in {"none", "done"}
    /\ shut' = "done"
    /\ UNCHANGED <<pc, aliases, envVars, tokFile, tok, srv, handlers, browser,
                   authCode, exchanges, scanVars>>

\* the Go runtime's check on the receive of line 100: main is blocked on
\* codeChan and no other goroutine is left that runs, waits on the network or
\* waits on a child process, so the runtime ends the process ("all goroutines
\* are asleep")
AllAsleep ==
    /\ pc = "wait"
    /\ srv = "failed"
    /\ browser \in {"failed", "exited"}
    /\ shut \in {"none", "done"}
    /\ \A h \in 1..MaxCallbacks : handlers[h].st \in {"none", "done"}
    /\ pc' = "exited"
    /\ UNCHANGED <<aliases, envVars, authVars, scanVars>>

\* ------------------------------------------------ main: exchange, saveToken
\* an exchange whose failure is passed over: getClient goes on to saveToken
ExchangeGoesOn ==
    /\ pc = "exchange"
    /\ exchanges' = Append(exchanges, authCode)
    /\ \/ tok' = "web" /\ pc' = "save"
       \/ tok' = tok /\ pc' = "save"
    /\ UNCHANGED <<aliases, envVars, tokFile, srv, handlers, shut, browser, authCode,
                   scanVars>>

\* config.Exchange with the received code; a failure is fatal
Exchange ==
    /\ pc = "exchange"
    /\ exchanges' = Append(exchanges, authCode)
    /\ \/ tok' = "web" /\ pc' = "save"
       \/ tok' = tok /\ pc' = "exited"
    /\ UNCHANGED <<aliases, envVars, tokFile, srv, handlers, shut, browser, authCode,
                   scanVars>>

\* the token file after saveToken, by what happens in it: "open" when
\* os.OpenFile fails (fatal), "encode" when the Encode whose result is dropped
\* fails after the truncation, "ok" otherwise
saveTokenFile(file, outcome) ==
    CASE outcome = "open" -> file
      [] outcome = "encode" -> "truncated"
      [] OTHER -> "saved"

\* saveToken, then getClient returns the client
SaveToken ==
    /\ pc = "save"
    /\ \E outcome \in {"open", "encode", "ok"} :
          /\ tokFile' = saveTokenFile(tokFile, outcome)
          /\ pc' = IF outcome = "open" THEN "exited" ELSE "service"
    /\ UNCHANGED <<aliases, envVars, tok, srv, handlers, shut, browser, authCode,
                   exchanges, scanVars>>

\* ------------------------------------------------------ main: the scan
\* main between getClient and the loop: the service, the query, the counters;
\* service tells whether gmail.NewService succeeds
Prepare ==
    /\ pc = "service"
    /\ \E service \in BOOLEAN :
          IF service
          THEN /\ pc' = "list"
               /\ q' = encodeQuery(order)
               /\ pageToken' = NoToken
               /\ messageIndex' = 0
          ELSE /\ pc' = "exited"
               /\ UNCHANGED <<q, pageToken, messageIndex>>
    /\ UNCHANGED <<aliases, envVars, authVars, requests, r, i, processed, cur>>

\* does the loop leave on a response with these identifiers (the test made
\* before the messages are looked at)
emptyPageEnds(ids) == Len(ids) = 0

\* where main goes when it is done with message idx of response resp: the
\* next message, or the end-of-page test on the continuation token
afterMessage(resp, idx, token) ==
    IF idx < Len(resp.ids)
    THEN [pc |-> "detail", i |-> idx + 1, pageToken |-> token]
    ELSE IF resp.next = NoToken
    THEN [pc |-> "done", i |-> 0, pageToken |-> token]
    ELSE [pc |-> "list", i |-> 0, pageToken |-> resp.next]

\* a `break` in the place of that `continue`: the rest of the page is dropped
onDetailErrorBreak(resp, idx, token) == afterMessage(resp, Len(resp.ids), token)

\* the `continue` taken when the detail fetch of message idx fails
onDetailError(resp, idx, token) == afterMessage(resp, idx, token)

\* a failed list request that is tried again
onListErrorRetry == "list"

\* where main goes on a failed list request: log.Fatalf ends the process
onListError == "exited"

\* one iteration of the page loop up to the message loop: the list request
\* and its response; a failure is fatal
List ==
    /\ pc = "list"
    /\ requests' = Append(requests, [q |-> q, pageToken |-> pageToken])
    /\ \/ /\ pc' = onListError
          /\ r' = FailedResponse
          /\ i' = i
       \/ LET p == PageOfToken(mailbox, pageToken)
              resp == [ids |-> PageIds(mailbox, p), next |-> NextPageToken(mailbox, p),
                       err |-> FALSE]
          IN  /\ r' = resp
              /\ IF emptyPageEnds(resp.ids)
                 THEN pc' = "done" /\ i' = 0
                 ELSE pc' = "detail" /\ i' = 1
    /\ UNCHANGED <<aliases, envVars, authVars, q, pageToken, processed, cur,
                   messageIndex>>

\* formatDate and FindStringSubmatch over the inputs of the model, computed
\* once
DateTable == [k \in InternalDates \X ZoneOffsets |-> formatDate(k[1], k[2])]
SubmatchTable == [s \in Subjects |-> FindStringSubmatch(s)]

\* the message loop's head: the detail fetch of r.ids[i], the headers, the
\* progress line and the filename prefix; a failure skips the message
Detail ==
    /\ pc = "detail"
    /\ processed' = Append(processed, r.ids[i])
    /\ \/ /\ cur' = [NoMsg EXCEPT !.id = r.ids[i], !.detail = "failed"]
          /\ pc' = onDetailError(r, i, pageToken).pc
          /\ i' = onDetailError(r, i, pageToken).i
          /\ pageToken' = onDetailError(r, i, pageToken).pageToken
       \/ /\ \E date \in DatesOf(contents), subject \in SubjectsOf(contents),
                n \in PartCountsOf(contents) :
                cur' = [NoMsg EXCEPT
                          !.id = r.ids[i],
                          !.detail = "ok",
                          !.index = messageIndex,
                          !.date = DateTable[<<date, zone>>],
                          !.subject = subject,
                          !.prefix = prefixOf(DateTable[<<date, zone>>], r.ids[i],
                                             SubmatchTable[subject], aliases),
                          !.nParts = n]
          /\ pc' = "part"
          /\ UNCHANGED <<i, pageToken>>
    /\ UNCHANGED <<aliases, envVars, authVars, q, requests, r, messageIndex>>

\* is an attachment fetched and saved for a top-level part
partMatches(mimeType, filename) ==
    mimeType = "application/pdf" /\ InvoiceFilenameMatch(filename)

\* partMatches over the inputs of the model, computed once
MatchTable == [k \in MimeTypes \X Filenames |-> partMatches(k[1], k[2])]

\* a `break` in the place of those `continue`s: the later parts are dropped
onAttachmentErrorBreak(m) == m.nParts + 1

\* the index of the part the loop looks at after a part whose attachment
\* could not be fetched, decoded or written (the `continue`s of the loop)
onAttachmentError(m) == m.part + 1

\* what can happen to a part: nothing when it does not match; for a matching
\* part the "fetch", the "decode" or the "write" fails, or all is "ok"
PartOutcomes(mimeType, filename) ==
    IF MatchTable[<<mimeType, filename>>] THEN {"fetch", "decode", "write", "ok"} ELSE {"none"}

\* one iteration of the parts loop: the part's test and, for a matching part,
\* the attachment fetch and saveAttachment
Part ==
    /\ pc = "part"
    /\ cur.part <= cur.nParts
    /\ \E mimeType \in MimeTypesOf(contents), filename \in FilenamesOf(contents) :
        \E outcome \in PartOutcomes(mimeType, filename) :
          cur' = CASE outcome = "none" ->
                        [cur EXCEPT !.part = @ + 1, !.examined = @ + 1,
                                    !.last = [mimeType |-> mimeType, filename |-> filename,
                                              fetched |-> FALSE, written |-> <<>>]]
                   [] outcome = "ok" ->
                        [cur EXCEPT !.part = @ + 1, !.examined = @ + 1,
                                    !.matched = @ + 1, !.attFetches = @ + 1,
                                    !.files = @ \cup {AttachmentName(cur.prefix, filename)},
                                    !.last = [mimeType |-> mimeType, filename |-> filename,
                                              fetched |-> TRUE,
                                              written |-> AttachmentName(cur.prefix, filename)]]
                   [] OTHER ->
                        [cur EXCEPT !.part = onAttachmentError(cur), !.examined = @ + 1,
                                    !.matched = @ + 1, !.attFetches = @ + 1,
                                    !.attFailed = @ + 1,
                                    !.failedAt = IF @ = 0 THEN cur.part ELSE @,
                                    !.last = [mimeType |-> mimeType, filename |-> filename,
                                              fetched |-> TRUE, written |-> <<>>]]
    /\ UNCHANGED <<pc, aliases, envVars, authVars, q, pageToken, requests, r, i,
                   processed, messageIndex>>

\* messageIndex after the raw step: the `continue` on a failed raw fetch
\* passes over the increment
indexAfterRaw(index, outcome) == IF outcome = "fetch" THEN index ELSE index + 1

\* the raw step of the current message: the raw fetch and saveRawMessage;
\* the "fetch", the "decode" or the "write" fails, or all is "ok"
Raw ==
    /\ pc = "part"
    /\ cur.part > cur.nParts
    /\ \E outcome \in {"fetch", "decode", "write", "ok"} :
          /\ cur' = IF outcome = "ok"
                    THEN [cur EXCEPT !.rawFetches = @ + 1, !.rawAt = cur.examined,
                                     !.emlWrites = @ + 1,
                                     !.files = @ \cup {RawName(cur.prefix)},
                                     !.last = NoPart]
                    ELSE [cur EXCEPT !.rawFetches = @ + 1, !.rawAt = cur.examined,
                                     !.last = NoPart]
          /\ messageIndex' = indexAfterRaw(messageIndex, outcome)
    /\ pc' = afterMessage(r, i, pageToken).pc
    /\ i' = afterMessage(r, i, pageToken).i
    /\ pageToken' = afterMessage(r, i, pageToken).pageToken
    /\ UNCHANGED <<aliases, envVars, authVars, q, requests, r, processed>>

\* ------------------------------------------------------- specifications
\* the main goroutine when a stored token is used
NextScan ==
    \/ Startup
    \/ GetClient
    \/ Prepare
    \/ List
    \/ Detail
    \/ Part
    \/ Raw

\* the steps only a run through the web flow takes
NextWeb ==
    \/ StartWebFlow
    \/ OpenBrowser
    \/ BrowserExit
    \/ Listen
    \/ ServeError
    \/ \E h \in 1..MaxCallbacks : CallbackRequest(h)
    \/ \E h \in 1..MaxCallbacks : ReceiveCode(h)
    \/ \E h \in 1..MaxCallbacks : HandlerReply(h)
    \/ ShutdownStart
    \/ ShutdownDone
    \/ AllAsleep
    \/ Exchange
    \/ SaveToken

Next == NextScan \/ NextWeb

\* configurations, without the empty table a missing file also gives
LiveConfigs == {c \in ConfigFiles : c.st # "ok" \/ c.table # {}}

\* chains of one page of at most two messages
OnePage == {mb \in PageChains : Len(mb) = 1 /\ mb[1] <= 2}

\* Every run, whatever the token file, over the README's setting: its alias
\* table, a mailbox that is empty or holds one sample message.
Init ==
    InitWith({c \in ConfigFiles : c.st = "ok" /\ c.table # {}}, TokenFileStates, {3600},
             {SearchParamOrders[1]}, {<<0>>, <<1>>}, {"sample"})
Spec == Init /\ [][Next]_vars

\* the steps the program's own goroutines take once they can; the arrival of
\* a callback request, the exit of the browser process and a failure of the
\* serving listener are the environment's and are not among them
ProgramStep ==
    \/ NextScan
    \/ StartWebFlow
    \/ OpenBrowser
    \/ Listen
    \/ \E h \in 1..MaxCallbacks : ReceiveCode(h)
    \/ \E h \in 1..MaxCallbacks : HandlerReply(h)
    \/ ShutdownStart
    \/ ShutdownDone
    \/ AllAsleep
    \/ Exchange
    \/ SaveToken

\* Spec with a scheduler that does not starve the program: a step of the
\* program that stays possible is eventually taken
FairSpec == Init /\ [][Next]_vars /\ WF_vars(ProgramStep)

\* The runs that start with a usable token file, over every page chain of
\* sample messages.
InitScan ==
    InitWith(LiveConfigs, {"valid"}, {0},
             {SearchParamOrders[k] : k \in DOMAIN SearchParamOrders}, PageChains, {"sample"})
SpecScan == InitScan /\ [][NextScan]_vars

\* The runs that start with a usable token file, over one page of up to two
\* messages of any kind.
InitMsg ==
    InitWith(LiveConfigs, {"valid"}, ZoneOffsets, {SearchParamOrders[1]}, OnePage, {"any"})
SpecMsg == InitMsg /\ [][NextScan]_vars

\* encodeQuery on its own: main up to the computation of q, searchParams
\* being any map of QueryOrders instead of the one main builds
NextQuery ==
    \/ Startup
    \/ GetClient
    \/ Prepare

InitQuery ==
    InitWith({c \in ConfigFiles : c.st = "ok" /\ c.table # {}}, {"valid"}, {0},
             QueryOrders, {<<0>>}, {"sample"})
SpecQuery == InitQuery /\ [][NextQuery]_vars

\* ------------------------------------------------------------- pagination
\* C1: for any chain of pages the first request carries no token, each later
\* one carries the token of the response before it and follows a response
\* whose token was not empty, and at the end of the scan the identifiers
\* processed are those of all the pages of the chain, in order, each once.
C1_EveryPageInOrder ==
    /\ requests # <<>> => requests[1].pageToken = NoToken
    /\ \A k \in 2..Len(requests) :
          /\ NextPageToken(mailbox, k - 1) # NoToken
          /\ requests[k].pageToken = NextPageToken(mailbox, k - 1)
    /\ processed = [k \in 1..Len(processed) |-> MsgId(k)]
    /\ pc = "done" => Len(processed) = SumUpTo(mailbox, Len(mailbox))

\* C2: whatever the number of identifiers on a page, a response with a token
\* is followed by a request with the same query and that token; the scan
\* ends only on a response without a token.
C2_ScanEndsOnlyWithoutToken ==
    /\ pc = "done" => r.next = NoToken
    /\ (pc = "list" /\ requests # <<>>) => pageToken = r.next /\ r.next # NoToken
    /\ \A k \in 1..Len(requests) : requests[k].q = q

\* C3: a message whose detail fetch fails gets no file, no attachment fetch
\* and no raw fetch, and the scan goes on with the message after it: the
\* identifiers are taken in order with none left out, a page is left only
\* when all its identifiers were taken, and so is the scan.
C3_DetailFailureSkipsOneMessage ==
    /\ cur.detail = "failed" =>
          /\ cur.files = {}
          /\ cur.attFetches = 0
          /\ cur.rawFetches = 0
          /\ cur.emlWrites = 0
          /\ cur.id = processed[Len(processed)]
    /\ processed = [k \in 1..Len(processed) |-> MsgId(k)]
    /\ pc = "detail" => r.ids[i] = MsgId(Len(processed) + 1)
    /\ (pc = "done" \/ (pc = "list" /\ requests # <<>>)) =>
          Len(processed) = SumUpTo(mailbox, Len(requests))

\* C3 happens: a detail fetch has failed and the loop stands at the next
\* message of the page.
C3_Witness ==
    /\ cur.detail = "failed"
    /\ pc = "detail"
    /\ r.ids[i] # cur.id

\* ------------------------------------------------------------- one message
\* C4: a failure on one matching part passes over that part alone: every
\* part up to the current one was examined, every matching part had its
\* attachment fetched, and a message that left the parts loop had all its
\* parts examined and its raw fetch made.
C4_AttachmentFailureSkipsOnePart ==
    /\ cur.examined = cur.part - 1
    /\ cur.part <= cur.nParts + 1
    /\ cur.attFetches = cur.matched
    /\ cur.attFailed <= cur.matched
    /\ cur.failedAt <= cur.examined
    /\ (cur.detail = "ok" /\ pc # "part") =>
          /\ cur.examined = cur.nParts
          /\ cur.rawFetches = 1

\* C4 happens: the first part's attachment failed, a later part matched and
\* was saved, and the raw message was fetched and written.
C4_Witness ==
    /\ cur.failedAt = 1
    /\ cur.attFailed = 1
    /\ cur.matched = 2
    /\ cur.rawFetches = 1
    /\ cur.emlWrites = 1

\* C5: a message whose detail fetch succeeded gets one raw fetch, made when
\* all its parts were handled and not before; a raw step that succeeds writes
\* one file, {prefix}.eml, one that fails writes none; after the raw step the
\* loop is at the next message or the run has ended with the whole page taken.
C5_OneRawStepAfterTheParts ==
    LET eml == {f \in cur.files : Len(f) >= 4 /\ SubSeq(f, Len(f) - 3, Len(f)) = EmlExt}
    IN  /\ cur.rawFetches <= 1
        /\ pc = "part" => cur.rawFetches = 0
        /\ (cur.detail = "ok" /\ pc # "part") => cur.rawFetches = 1
        /\ cur.rawFetches = 1 => cur.rawAt = cur.nParts
        /\ cur.emlWrites <= cur.rawFetches
        /\ cur.emlWrites = 1 => eml = {cur.prefix \o EmlExt}
        /\ cur.emlWrites = 0 => eml = {}
        /\ cur.rawFetches = 1 => pc \in {"detail", "done"}
        /\ (pc = "done" /\ requests # <<>>) => Len(processed) = mailbox[1]

\* C5 happens: of two parts one did not match and the other's attachment
\* failed, and the raw message was fetched and written all the same.
C5_Witness ==
    /\ cur.nParts = 2
    /\ cur.matched = 1
    /\ cur.attFailed = 1
    /\ cur.rawFetches = 1
    /\ cur.emlWrites = 1

\* C6: two different messages never get the same filename prefix (so that no
\* file of one is overwritten by the other's): the prefix computed for a
\* message differs from the prefix of the message before it.
C6_NoTwoMessagesShareAPrefix ==
    [][(cur.detail = "ok" /\ cur'.detail = "ok" /\ cur'.id # cur.id)
          => cur'.prefix # cur.prefix]_vars

C8_FreshTokenSavedBeforeUse ==
    (tok = "web" /\ (pc = "service" \/ requests # <<>>)) => tokFile = "saved"

\* C9: at most one callback invocation hands its code to the flow, whatever
\* the number of invocations; the exchange is made at most once, with the code
\* handed over; without a handoff there is no exchange and the flow does not
\* get past the wait.
C9_OneCodeOneExchange ==
    LET handed == {h \in 1..MaxCallbacks : handlers[h].st \in {"reply", "done"}}
    IN  /\ Cardinality(handed) <= 1
        /\ Len(exchanges) <= 1
        /\ exchanges # <<>> =>
              \E h \in handed : exchanges[1] = handlers[h].code /\ authCode = handlers[h].code
        /\ handed = {} =>
              /\ exchanges = <<>>
              /\ tok # "web"
              /\ tokStart # "valid" => pc \in {"start", "getClient", "web", "browser", "wait", "exited"}

\* C9 happens: two callback invocations arrived, one handed its code over and
\* the exchange was made, the other is still blocked in its send.
C9_Witness ==
    /\ Len(exchanges) = 1
    /\ \E h, g \in 1..MaxCallbacks :
          /\ handlers[h].st \in {"reply", "done"}
          /\ handlers[g].st = "send"

\* C10: once the listener has failed while the flow waits and no handler
\* holds a code for it, the process terminates.
C10_ListenerFailureEndsRun ==
    (pc = "wait" /\ srv = "failed" /\ \A h \in 1..MaxCallbacks : handlers[h].st # "send")
        ~> (pc = "exited")

\* C11: when the exchange fails the run has ended: the exchange was made
\* once, the token file is as the run found it, and no list request, no
\* message fetch and no file write was made.
C11_ExchangeFailureEndsRun ==
    (exchanges # <<>> /\ tok # "web") =>
        /\ pc = "exited"
        /\ Len(exchanges) = 1
        /\ tokFile = tokStart
        /\ requests = <<>>
        /\ processed = <<>>
        /\ cur = NoMsg

\* C11 happens: no token file, a code was handed over, the exchange failed.
C11_Witness ==
    /\ tokStart = "absent"
    /\ exchanges # <<>>
    /\ tok = "none"
    /\ pc = "exited"

\* C12: a list request that fails, the first or a later one, ends the run:
\* the step that fails it leaves main ended and touches no message and no
\* file, and no step at all is taken after it.
C12_ListFailureEndsRun ==
    [][/\ ~r.err
       /\ r'.err => (pc' = "exited" /\ cur' = cur /\ processed' = processed)]_vars

\* C12 happens: the request for the second page failed after a file was
\* written for a message of the first.
C12_Witness ==
    /\ r.err
    /\ Len(requests) = 2
    /\ cur.files # {}

\* the "(contrato <digits>)" tokens of each subject, as <<position, number
\* of digits>>: the literal, one or more digits, the closing parenthesis
C13_Tokens ==
    [s \in Subjects |->
        {t \in (1..Len(s)) \X (1..Len(s)) :
            /\ t[1] + 10 + t[2] <= Len(s)
            /\ SubSeq(s, t[1], t[1] + 9) = <<"(", "c", "o", "n", "t", "r", "a", "t", "o", " ">>
            /\ \A k \in 1..t[2] :
                  s[t[1] + 9 + k] \in {"0", "1", "2", "3", "4", "5", "6", "7", "8", "9"}
            /\ s[t[1] + 10 + t[2]] = ")"}]

\* C13: for every message, date, subject and alias table the prefix is
\* {date}-edp-{contract} for the first "(contrato <digits>)" token of the
\* subject, with -{alias} appended exactly when the contract is a key of the
\* alias table, and {date}-{messageId} when the subject (empty when the
\* header is missing) has no such token.
C13_PrefixFromSubject ==
    cur.detail = "ok" =>
        LET s == cur.subject
            hits == C13_Tokens[s]
        IN  IF hits = {}
            THEN cur.prefix = cur.date \o <<"-">> \o cur.id
            ELSE LET first == CHOOSE h \in hits : \A g \in hits : h[1] <= g[1]
                     contract == SubSeq(s, first[1] + 10, first[1] + 9 + first[2])
                     edp == cur.date \o <<"-", "e", "d", "p", "-">> \o contract
                     named == {e \in aliases : e[1] = contract}
                 IN  IF named = {}
                     THEN cur.prefix = edp
                     ELSE \A e \in named : cur.prefix = edp \o <<"-">> \o e[2]

\* C13 happens: the README's example, 2024-07-08-edp-100200300200-mafra.
C13_Witness ==
    /\ cur.detail = "ok"
    /\ cur.subject \in Subjects
    /\ cur.prefix = <<"2", "0", "2", "4", "-", "0", "7", "-", "0", "8", "-", "e", "d", "p", "-",
                      "1", "0", "0", "2", "0", "0", "3", "0", "0", "2", "0", "0", "-",
                      "m", "a", "f", "r", "a">>

\* C14: the attachment of a part is fetched if and only if the part is one
\* of the message's top-level parts, its MIME type is application/pdf and its
\* filename is one or more digits followed by .pdf and nothing else; what is
\* written for it is {prefix}-{filename}; there are no more fetches than
\* top-level parts, and "invoice-187008571923.pdf", "187008571923.txt" and
\* containers of nested parts get none.
C14_StrictPdfPartsOnly ==
    LET f == cur.last.filename
        digitsPdf ==
            \E n \in 1..Len(f) :
                /\ Len(f) = n + 4
                /\ \A k \in 1..n : f[k] \in {"0", "1", "2", "3", "4", "5", "6", "7", "8", "9"}
                /\ SubSeq(f, n + 1, n + 4) = <<".", "p", "d", "f">>
    IN  /\ cur.last # NoPart =>
              /\ cur.last.fetched <=> (cur.last.mimeType = "application/pdf" /\ digitsPdf)
              /\ cur.last.written # <<>> =>
                    /\ cur.last.fetched
                    /\ cur.last.written = cur.prefix \o <<"-">> \o f
                    /\ cur.last.written \in cur.files
        /\ cur.attFetches <= cur.examined
        /\ cur.examined <= cur.nParts

\* C14 happens: the README's attachment, 187008571923.pdf, was fetched and
\* written under the prefix of its message.
C14_Witness ==
    /\ cur.last.fetched
    /\ cur.last.filename = SampleFilename
    /\ cur.last.written = cur.prefix \o <<"-">> \o SampleFilename
    /\ cur.last.written \in cur.files

\* C15: the map given to encodeQuery can be recovered from the string it
\* returns (no other map gives the same string, whatever the parser), and
\* every value that contains a space or a colon stands in the string between
\* double quotes.
C15_EncodeQueryRoundTrip ==
    pc = "list" =>
        /\ \A o \in QueryOrders :
              encodeQuery(o) = q =>
                  {o[k] : k \in 1..Len(o)} = {order[k] : k \in 1..Len(order)}
        /\ \A k \in 1..Len(order) :
              (\E c \in 1..Len(order[k][2]) : order[k][2][c] \in {" ", ":"}) =>
                  LET quoted == order[k][1] \o <<":", "\"">> \o order[k][2] \o <<"\"">>
                  IN  \E at \in 1..Len(q) :
                          /\ at + Len(quoted) - 1 <= Len(q)
                          /\ SubSeq(q, at, at + Len(quoted) - 1) = quoted

\* C16: the progress lines are numbered 0, 1, 2, ...: the line of the first
\* message carries 0 and the line of a message carries one more than the line
\* of the message before it, whatever happened in that message's attachment
\* and raw steps.
C16_ProgressCountsUp ==
    [][(cur'.detail = "ok" /\ cur'.id # cur.id) =>
          /\ cur.detail = "none" => cur'.index = 0
          /\ cur.detail = "ok" => cur'.index = cur.index + 1]_vars

\* C17: the shutdown of the listener is started only after a code was handed
\* over, and once a code was handed over the shutdown can complete, also when
\* further callback requests arrived: no handler is left blocked in its send,
\* on whose connection the shutdown would wait.
C17_ShutdownCompletes ==
    LET handed == {h \in 1..MaxCallbacks : handlers[h].st \in {"reply", "done"}}
    IN  /\ shut # "none" => handed # {}
        /\ (handed # {} /\ shut # "done" /\ Running) =>
              \A h \in 1..MaxCallbacks : handlers[h].st # "send"

\* C19: a handler gets past its send only by handing its code to the flow,
\* whatever the code and the state of its request: the wait has then ended
\* with that code, which is the one given to the exchange; and the flow, while
\* it waits, can take the code of any handler that stands in its send.
C19_UncheckedHandoff ==
    /\ \A h \in 1..MaxCallbacks :
          /\ handlers[h].st \in {"reply", "done"} =>
                /\ authCode = handlers[h].code
                /\ pc \notin {"start", "getClient", "web", "browser", "wait"}
          /\ (handlers[h].st = "send" /\ pc = "wait") => ENABLED ReceiveCode(h)
    /\ exchanges # <<>> => exchanges[1] = authCode

\* C19 happens: a request without code and without the state was answered,
\* its empty code was given to the exchange, and the failure ended the run.
C19_Witness ==
    /\ \E h \in 1..MaxCallbacks :
          /\ handlers[h].st = "done"
          /\ handlers[h].code = ""
          /\ handlers[h].state # "state-token"
    /\ exchanges = <<"">>
    /\ tok = "none"
    /\ pc = "exited"

\* C18: whether the launch of the browser fails or not, the flow goes on to
\* the wait for the code; the exit of the browser process changes nothing but
\* the record of that process; while the flow waits and a handler stands in
\* its send, the flow can take the code, whatever became of the browser.
C18_BrowserNeverStopsTheFlow ==
    /\ [][(pc = "browser" /\ (pc' # pc \/ browser' # browser)) =>
              (pc' = "wait" /\ browser' \in {"running", "failed"})]_vars
    /\ [][(pc # "browser" /\ browser' # browser) =>
              UNCHANGED <<pc, aliases, envVars, tokFile, tok, srv, handlers, shut,
                          authCode, exchanges, scanVars>>]_vars
    /\ [](\A h \in 1..MaxCallbacks :
              (pc = "wait" /\ handlers[h].st = "send") => ENABLED ReceiveCode(h))

\* C18 happens: the launch of the browser failed, a callback arrived all the
\* same, and the run went through the exchange to the end of the scan.
C18_Witness ==
    /\ browser = "failed"
    /\ tok = "web"
    /\ pc = "done"

====
